---- MODULE Spec2Model ----
(***************************************************************************)
(* Model of the Architect notification relay:                              *)
(*   architect_notify.py       - classify a raw notification and deliver   *)
(*                               it over the per-session Unix socket       *)
(*   architect_hook_gemini.py  - Gemini hook wrapper around it             *)
(*                                                                         *)
(* Text is modelled as TLA+ strings, character by character.  The input    *)
(* alphabet is printable ASCII without backslash and without the single    *)
(* quote, plus the whitespace characters space, \t, \n, \r and \f; JSON    *)
(* numbers are integers.  Escape sequences and floats are therefore not    *)
(* modelled.                                                               *)
(***************************************************************************)
EXTENDS Integers, Sequences, FiniteSets, TLC

(***************************************************************************)
(* Bounds of the model.                                                    *)
(***************************************************************************)
\* number of whitespace characters put around an input
MaxPad == 1

(***************************************************************************)
(* Python values.                                                          *)
(***************************************************************************)
\* Python's None (os.environ.get of an unset variable, "no notification")
None == "<None>"

VALID_STATES == {"start", "awaiting_approval", "done"}

(***************************************************************************)
(* str methods used by the code.                                           *)
(***************************************************************************)
\* s[i:i+1], the empty string outside of s
At(s, i) == IF i >= 1 /\ i <= Len(s) THEN SubSeq(s, i, i) ELSE ""

\* s.startswith(lit, i)
StartsAt(s, i, lit) ==
    /\ i >= 1
    /\ i + Len(lit) - 1 <= Len(s)
    /\ SubSeq(s, i, i + Len(lit) - 1) = lit

\* characters str.strip() removes (within the alphabet)
PyWhitespace == {" ", "\t", "\n", "\r", "\f"}

RECURSIVE LStrip(_)
LStrip(s) == IF Len(s) > 0 /\ Head(s) \in PyWhitespace THEN LStrip(Tail(s)) ELSE s

RECURSIVE RStrip(_)
RStrip(s) ==
    IF Len(s) > 0 /\ At(s, Len(s)) \in PyWhitespace
    THEN RStrip(SubSeq(s, 1, Len(s) - 1))
    ELSE s

\* faulty variant: the text is not trimmed
NoStrip(s) == s

\* str.strip()
Strip(s) == RStrip(LStrip(s))

UpperAlpha == "ABCDEFGHIJKLMNOPQRSTUVWXYZ"
LowerAlpha == "abcdefghijklmnopqrstuvwxyz"

LowerChar(c) ==
    IF \E i \in 1..26 : At(UpperAlpha, i) = c
    THEN At(LowerAlpha, CHOOSE i \in 1..26 : At(UpperAlpha, i) = c)
    ELSE c

RECURSIVE Lower(_)
\* str.lower()
Lower(s) == IF s = "" THEN "" ELSE LowerChar(Head(s)) \o Lower(Tail(s))

\* sub in s
Contains(s, sub) ==
    \E i \in 1..(Len(s) - Len(sub) + 1) : SubSeq(s, i, i + Len(sub) - 1) = sub

\* s.endswith(suffix)
EndsWith(s, suffix) ==
    /\ Len(s) >= Len(suffix)
    /\ SubSeq(s, Len(s) - Len(suffix) + 1, Len(s)) = suffix


(***************************************************************************)
(* json.loads, as the code calls it (strict mode, no hooks).  A parse      *)
(* result is [ok, val, pos]: ok = FALSE stands for a raised                *)
(* JSONDecodeError, pos is the index after the parsed value.  A value is   *)
(* [t, v] with t the Python type of the result.  A dict is the sequence    *)
(* of its <<key, value>> items in insertion order.                         *)
(***************************************************************************)
JSONWhitespace == {" ", "\t", "\n", "\r"}

ControlChars == {"\t", "\n", "\r", "\f"}

DigitChars == {"0", "1", "2", "3", "4", "5", "6", "7", "8", "9"}

PyNone == [t |-> "NoneType", v |-> "None"]

Fail == [ok |-> FALSE, val |-> PyNone, pos |-> 0]

Ok(val, pos) == [ok |-> TRUE, val |-> val, pos |-> pos]

RECURSIVE SkipWs(_, _)
SkipWs(s, i) ==
    IF i <= Len(s) /\ At(s, i) \in JSONWhitespace THEN SkipWs(s, i + 1) ELSE i

RECURSIVE StringEnd(_, _)
\* index of the closing quote of the string whose content starts at i; 0 when
\* the string is unterminated or holds a control character
StringEnd(s, i) ==
    IF i > Len(s) THEN 0
    ELSE IF At(s, i) = "\"" THEN i
    ELSE IF At(s, i) \in ControlChars THEN 0
    ELSE StringEnd(s, i + 1)

\* scanstring(s, i): i is the index after the opening quote
ScanString(s, i) ==
    LET e == StringEnd(s, i)
    IN  IF e = 0 THEN Fail
        ELSE Ok([t |-> "str", v |-> SubSeq(s, i, e - 1)], e + 1)

RECURSIVE DigitsEnd(_, _)
DigitsEnd(s, i) == IF At(s, i) \in DigitChars THEN DigitsEnd(s, i + 1) ELSE i

\* NUMBER_RE.match(s, i), integer part: -?(0|[1-9][0-9]*)
ScanNumber(s, i) ==
    LET j == IF At(s, i) = "-" THEN i + 1 ELSE i
        e == IF At(s, j) = "0" THEN j + 1 ELSE DigitsEnd(s, j)
    IN  IF At(s, j) \notin DigitChars THEN Fail
        ELSE Ok([t |-> "int", v |-> SubSeq(s, i, e - 1)], e)

\* dict[k] = val
DictSet(items, k, val) ==
    IF \E n \in 1..Len(items) : items[n][1] = k
    THEN [n \in 1..Len(items) |-> IF items[n][1] = k THEN <<k, val>> ELSE items[n]]
    ELSE Append(items, <<k, val>>)

RECURSIVE ScanOnce(_, _)
RECURSIVE ArrayItems(_, _, _)
RECURSIVE ObjectItems(_, _, _)

\* JSONArray(s, i): i is the index after the opening bracket
JSONArray(s, i) ==
    LET j == SkipWs(s, i)
    IN  IF At(s, j) = "]" THEN Ok([t |-> "list", v |-> <<>>], j + 1)
        ELSE ArrayItems(s, j, <<>>)

ArrayItems(s, i, acc) ==
    LET r == ScanOnce(s, i)
        k == SkipWs(s, r.pos)
    IN  IF ~r.ok THEN Fail
        ELSE IF At(s, k) = "]" THEN Ok([t |-> "list", v |-> Append(acc, r.val)], k + 1)
        ELSE IF At(s, k) = "," THEN ArrayItems(s, SkipWs(s, k + 1), Append(acc, r.val))
        ELSE Fail

\* JSONObject(s, i): i is the index after the opening brace
JSONObject(s, i) ==
    LET j == SkipWs(s, i)
    IN  IF At(s, j) = "}" THEN Ok([t |-> "dict", v |-> <<>>], j + 1)
        ELSE IF At(s, j) = "\"" THEN ObjectItems(s, j + 1, <<>>)
        ELSE Fail

\* one "key": value item of an object; i is the index after the key's opening quote
ObjectItems(s, i, acc) ==
    LET key == ScanString(s, i)
        c   == SkipWs(s, key.pos)
        r   == ScanOnce(s, SkipWs(s, c + 1))
        k   == SkipWs(s, r.pos)
        n   == SkipWs(s, k + 1)
    IN  IF ~key.ok THEN Fail
        ELSE IF At(s, c) # ":" THEN Fail
        ELSE IF ~r.ok THEN Fail
        ELSE IF At(s, k) = "}"
             THEN Ok([t |-> "dict", v |-> DictSet(acc, key.val.v, r.val)], k + 1)
        ELSE IF At(s, k) = "," /\ At(s, n) = "\""
             THEN ObjectItems(s, n + 1, DictSet(acc, key.val.v, r.val))
        ELSE Fail

\* scan_once(s, i): the JSON value starting exactly at i
ScanOnce(s, i) ==
    LET c == At(s, i)
    IN  IF c = "\"" THEN ScanString(s, i + 1)
        ELSE IF c = "{" THEN JSONObject(s, i + 1)
        ELSE IF c = "[" THEN JSONArray(s, i + 1)
        ELSE IF StartsAt(s, i, "null") THEN Ok(PyNone, i + 4)
        ELSE IF StartsAt(s, i, "true") THEN Ok([t |-> "bool", v |-> "True"], i + 4)
        ELSE IF StartsAt(s, i, "false") THEN Ok([t |-> "bool", v |-> "False"], i + 5)
        ELSE IF ScanNumber(s, i).ok THEN ScanNumber(s, i)
        ELSE IF StartsAt(s, i, "NaN") THEN Ok([t |-> "float", v |-> "nan"], i + 3)
        ELSE IF StartsAt(s, i, "Infinity") THEN Ok([t |-> "float", v |-> "inf"], i + 8)
        ELSE IF StartsAt(s, i, "-Infinity") THEN Ok([t |-> "float", v |-> "-inf"], i + 9)
        ELSE Fail

\* json.loads(s)
JsonLoads(s) ==
    LET r == ScanOnce(s, SkipWs(s, 1))
    IN  IF ~r.ok THEN Fail
        ELSE IF SkipWs(s, r.pos) # Len(s) + 1 THEN Fail
        ELSE r

(***************************************************************************)
(* Python built-ins applied to parsed values.                              *)
(***************************************************************************)
\* payload.get(k)
DictGet(items, k) ==
    IF \E n \in 1..Len(items) : items[n][1] = k
    THEN items[CHOOSE n \in 1..Len(items) : items[n][1] = k][2]
    ELSE PyNone

\* bool(val)
Truthy(val) ==
    CASE val.t = "str"      -> val.v # ""
      [] val.t = "int"      -> val.v \notin {"0", "-0"}
      [] val.t = "float"    -> TRUE
      [] val.t = "bool"     -> val.v = "True"
      [] val.t = "NoneType" -> FALSE
      [] val.t = "list"     -> Len(val.v) > 0
      [] val.t = "dict"     -> Len(val.v) > 0

RECURSIVE PyRepr(_)
RECURSIVE JoinRepr(_, _)
RECURSIVE JoinItems(_, _)

\* ", ".join(repr(x) for x in vals[n:])
JoinRepr(vals, n) ==
    IF n > Len(vals) THEN ""
    ELSE PyRepr(vals[n]) \o (IF n < Len(vals) THEN ", " ELSE "") \o JoinRepr(vals, n + 1)

\* ", ".join(repr(k) + ": " + repr(v) for the items from the n-th on)
JoinItems(items, n) ==
    IF n > Len(items) THEN ""
    ELSE "'" \o items[n][1] \o "': " \o PyRepr(items[n][2])
         \o (IF n < Len(items) THEN ", " ELSE "") \o JoinItems(items, n + 1)

\* repr(val)
PyRepr(val) ==
    CASE val.t = "str"  -> "'" \o val.v \o "'"
      [] val.t = "int"  -> IF val.v = "-0" THEN "0" ELSE val.v
      [] val.t = "list" -> "[" \o JoinRepr(val.v, 1) \o "]"
      [] val.t = "dict" -> "{" \o JoinItems(val.v, 1) \o "}"
      [] OTHER          -> val.v

\* str(val)
PyStr(val) == IF val.t = "str" THEN val.v ELSE PyRepr(val)

(***************************************************************************)
(* architect_notify.py: state_from_notification                            *)
(***************************************************************************)
\* the rules on the lower-cased status field; None when no rule matches
StatusRule(lowered) ==
    IF lowered \in VALID_STATES THEN lowered
    ELSE IF lowered \in {"complete", "completed", "finished", "success"} THEN "done"
    ELSE IF Contains(lowered, "approval") \/ Contains(lowered, "permission")
         THEN "awaiting_approval"
    ELSE None

\* the rules on the lower-cased type field; None when no rule matches
TypeRule(ntype) ==
    IF ntype = "" THEN None
    ELSE IF ntype \in VALID_STATES THEN ntype
    ELSE IF \/ Contains(ntype, "approval")
            \/ Contains(ntype, "permission")
            \/ (Contains(ntype, "input") /\ Contains(ntype, "await"))
         THEN "awaiting_approval"
    ELSE IF Contains(ntype, "complete") \/ EndsWith(ntype, "-done") THEN "done"
    ELSE IF Contains(ntype, "start") \/ Contains(ntype, "begin") THEN "start"
    ELSE None

\* faulty variant: a status string that matches no rule ends the resolution
state_from_payload_elif(payload) ==
    LET state_field == DictGet(payload, "state")
        status      == DictGet(payload, "status")
        type_field  == DictGet(payload, "type")
        ntype       == Lower(IF Truthy(type_field) THEN PyStr(type_field) ELSE "")
    IN  IF state_field.t = "str" /\ state_field.v \in VALID_STATES THEN state_field.v
        ELSE IF status.t = "str" THEN StatusRule(Lower(status.v))
        ELSE TypeRule(ntype)

\* the field resolution on a parsed dict
state_from_payload(payload) ==
    LET state_field == DictGet(payload, "state")
        status      == DictGet(payload, "status")
        type_field  == DictGet(payload, "type")
        ntype       == Lower(IF Truthy(type_field) THEN PyStr(type_field) ELSE "")
    IN  IF state_field.t = "str" /\ state_field.v \in VALID_STATES THEN state_field.v
        ELSE IF status.t = "str" /\ StatusRule(Lower(status.v)) # None
             THEN StatusRule(Lower(status.v))
        ELSE TypeRule(ntype)

\* faulty variant: a parsed value that is not a dict is searched for a state name
state_from_notification_any(raw_in) ==
    LET raw     == Strip(raw_in)
        payload == JsonLoads(raw)
    IN  IF raw = "" THEN None
        ELSE IF raw \in VALID_STATES THEN raw
        ELSE IF ~payload.ok THEN None
        ELSE IF payload.val.t # "dict" THEN TypeRule(Lower(PyStr(payload.val)))
        ELSE state_from_payload(payload.val.v)

state_from_notification(raw_in) ==
    LET raw     == Strip(raw_in)
        payload == JsonLoads(raw)
    IN  IF raw = "" THEN None
        ELSE IF raw \in VALID_STATES THEN raw
        ELSE IF ~payload.ok THEN None
        ELSE IF payload.val.t # "dict" THEN None
        ELSE state_from_payload(payload.val.v)

(***************************************************************************)
(* architect_notify.py: the outbound message                               *)
(***************************************************************************)
DigitString == "0123456789"

DigitVal(c) == (CHOOSE i \in 1..10 : At(DigitString, i) = c) - 1

RECURSIVE DigitsValue(_, _, _)
\* value of the digit groups of body from index i on, acc the value so far;
\* -1 when body is not digit ("_"? digit)*
DigitsValue(body, i, acc) ==
    IF i > Len(body) THEN acc
    ELSE IF At(body, i) \in DigitChars
         THEN DigitsValue(body, i + 1, acc * 10 + DigitVal(At(body, i)))
    ELSE IF At(body, i) = "_" /\ At(body, i + 1) \in DigitChars
         THEN DigitsValue(body, i + 1, acc)
    ELSE -1

\* int(s): [ok, val]; ok = FALSE stands for the raised ValueError
PyInt(s) ==
    LET t    == Strip(s)
        neg  == At(t, 1) = "-"
        body == IF At(t, 1) \in {"-", "+"} THEN Tail(t) ELSE t
        mag  == IF At(body, 1) \in DigitChars THEN DigitsValue(body, 1, 0) ELSE -1
    IN  IF mag < 0 THEN [ok |-> FALSE, val |-> 0]
        ELSE [ok |-> TRUE, val |-> IF neg THEN 0 - mag ELSE mag]

RECURSIVE NatToStr(_)
NatToStr(n) ==
    IF n < 10 THEN At(DigitString, n + 1)
    ELSE NatToStr(n \div 10) \o At(DigitString, (n % 10) + 1)

\* str(n) of an int
IntToStr(n) == IF n < 0 THEN "-" \o NatToStr(0 - n) ELSE NatToStr(n)

RECURSIVE JsonDumps(_)
RECURSIVE DumpItems(_, _)

\* ", ".join of the "key": value items from the n-th on
DumpItems(items, n) ==
    IF n > Len(items) THEN ""
    ELSE "\"" \o items[n][1] \o "\": " \o JsonDumps(items[n][2])
         \o (IF n < Len(items) THEN ", " ELSE "") \o DumpItems(items, n + 1)

\* json.dumps(val) with the default separators, for ints, dicts and strings
\* that need no escaping
JsonDumps(val) ==
    CASE val.t = "str"  -> "\"" \o val.v \o "\""
      [] val.t = "int"  -> val.v
      [] val.t = "dict" -> "{" \o DumpItems(val.v, 1) \o "}"

PyStrVal(s) == [t |-> "str", v |-> s]

PyIntVal(n) == [t |-> "int", v |-> IntToStr(n)]

PyDict(items) == [t |-> "dict", v |-> items]

\* faulty variant: the session id is sent as it is in the environment, a string
NotifyMessageText(session, state) ==
    JsonDumps(PyDict(<< <<"session", PyStrVal(IntToStr(session))>>,
                        <<"state", PyStrVal(state)>> >>)) \o "\n"

\* json.dumps({"session": int(session_id), "state": state}) + "\n"
NotifyMessage(session, state) ==
    JsonDumps(PyDict(<< <<"session", PyIntVal(session)>>,
                        <<"state", PyStrVal(state)>> >>)) \o "\n"

(***************************************************************************)
(* Inputs.  Every input text comes with the description it was built       *)
(* from ("given"), which is not visible to the program.                    *)
(***************************************************************************)
\* a field that the JSON object does not have
Absent == "<absent>"

PadChars == {" ", "\n", "\f"}

RECURSIVE Pads(_)
\* the whitespace strings of at most n characters
Pads(n) ==
    IF n = 0 THEN {""}
    ELSE Pads(n - 1) \cup {p \o c : p \in Pads(n - 1), c \in PadChars}

Given(kind, name, st, su, ty) ==
    [kind |-> kind, name |-> name, state |-> st, status |-> su, type |-> ty]

\* texts that are not JSON and, trimmed, not a canonical state name
NotJsonTexts ==
    { "not json", "Done", "done done", "{", "{\"state\":\"done\"", "[1,]",
      "{\"state\":\"done\",}", "{state:done}", "01", "nul", "{} {}",
      "{\"state\":\"done\"}\f}" }

\* JSON texts of values that are not objects
NonObjectTexts ==
    { "[]", "[\"done\"]", "5", "-0", "\"done\"", "true", "false", "null",
      "[{\"state\":\"done\"}]", "[ 1 , [ ] ]" }

\* JSON objects with fields that are not strings, nested or repeated
OtherObjectTexts ==
    { "{}", "{\"foo\":\"bar\"}", "{\"state\":1,\"status\":\"Completed\"}",
      "{\"type\":[\"start\"]}", "{\"type\":{\"a\":\"complete\"}}",
      "{\"type\":true}", "{\"type\":0}", "{\"type\":null}",
      "{\"status\":true,\"type\":\"begin\"}",
      "{\"state\":\"start\",\"state\":\"bogus\",\"type\":\"x-done\"}",
      "{\"a\":{\"b\":{\"type\":\"start\"}}}",
      "{\"type\":\"agent-turn-complete\",\"thread-id\":\"7\"}" }

StateValues == {Absent, "done", "Done", "nope"}

StatusValues ==
    {Absent, "Completed", "needs approval", "START", "unknown", "Permission"}

TypeValues ==
    {Absent, "agent-turn-complete", "awaiting-user-input", "task-started",
     "x-done", "Begin", "input", "noise", ""}

\* the fields of an object that are present, as <<key, value>> items
FieldItems(st, su, ty) ==
    (IF st = Absent THEN <<>> ELSE << <<"state", st>> >>)
    \o (IF su = Absent THEN <<>> ELSE << <<"status", su>> >>)
    \o (IF ty = Absent THEN <<>> ELSE << <<"type", ty>> >>)

Reverse(seq) == [n \in 1..Len(seq) |-> seq[Len(seq) + 1 - n]]

RECURSIVE ItemsText(_, _, _, _)
ItemsText(items, n, itemSep, keySep) ==
    IF n > Len(items) THEN ""
    ELSE "\"" \o items[n][1] \o "\"" \o keySep \o "\"" \o items[n][2] \o "\""
         \o (IF n < Len(items) THEN itemSep ELSE "") \o ItemsText(items, n + 1, itemSep, keySep)

\* the object written compactly in the order state, status, type, or with
\* spaces in the opposite order
ObjectText(st, su, ty, reversed) ==
    IF reversed
    THEN "{ " \o ItemsText(Reverse(FieldItems(st, su, ty)), 1, " , ", " : ") \o " }"
    ELSE "{" \o ItemsText(FieldItems(st, su, ty), 1, ",", ":") \o "}"

Padded(texts, kind) ==
    { [text |-> l \o t \o r, given |-> Given(kind, Absent, Absent, Absent, Absent)] :
        l \in Pads(MaxPad), r \in Pads(MaxPad), t \in texts }

Inputs ==
    Padded({""}, "blank")
    \cup { [text |-> l \o n \o r, given |-> Given("canonical", n, Absent, Absent, Absent)] :
             l \in Pads(MaxPad), r \in Pads(MaxPad), n \in VALID_STATES }
    \cup Padded(NotJsonTexts, "notjson")
    \cup Padded(NonObjectTexts, "nonobject")
    \cup Padded(OtherObjectTexts, "other")
    \cup { [text |-> ObjectText(st, su, ty, rev), given |-> Given("object", Absent, st, su, ty)] :
             st \in StateValues, su \in StatusValues, ty \in TypeValues, rev \in BOOLEAN }

\* arguments the Gemini hook is configured with
HookInputs == {i \in Inputs : i.given.kind \in {"blank", "canonical"} \/ i.text = "not json"}

\* what Gemini writes to the hook's standard input
HookStdin == {"", "{}", "not json", "{\"hook_event_name\": \"AfterAgent\"}"}

\* values of ARCHITECT_SESSION_ID in the environment (None: unset)
SessionIds == {None, "", "7", " 42\n", "-3", "1_0", "007", "abc", "4 2"}

\* values of ARCHITECT_NOTIFY_SOCK in the environment (None: unset)
SockPaths == {None, "", "/tmp/architect.sock"}

(***************************************************************************)
(* State.                                                                  *)
(***************************************************************************)
VARIABLES
    prog,        \* what is run: the script "notify" or "gemini", or a direct
                 \* call of state_from_notification, "classify"
    argv,        \* its command-line arguments, sys.argv[1:]
    stdin,       \* its standard input
    given,       \* what the input text was built from
    gpc,         \* architect_hook_gemini.py: position
    gout,        \* architect_hook_gemini.py: standard output
    gexit,       \* architect_hook_gemini.py: exit status
    npc,         \* architect_notify.py: position
    nargv,       \* architect_notify.py: sys.argv[1:]
    nstdin,      \* architect_notify.py: standard input
    nout,        \* architect_notify.py: standard output
    nerr,        \* architect_notify.py: standard error
    nexit,       \* architect_notify.py: exit status
    result,      \* what state_from_notification returned, Unbound before the call
    state,       \* __main__: state
    session_id,  \* notify_architect: session_id
    sock_path,   \* notify_architect: sock_path
    message,     \* notify_architect: message
    sock,        \* notify_architect: the socket, "none", "open", "connected" or "closed"
    timeout,     \* the timeout of the socket, None for a blocking socket
    ops,         \* the socket operations performed, in order
    wire,        \* the byte strings written to the socket, in order
    exc          \* the exception raised inside notify_architect, None if none

vars ==
    << prog, argv, stdin, given, gpc, gout, gexit, npc, nargv, nstdin, nout, nerr,
       nexit, result, state, session_id, sock_path, message, sock, timeout, ops, wire, exc >>

inputVars == << prog, argv, stdin, given >>

geminiVars == << gpc, gout, gexit >>

deliverVars == << session_id, sock_path, message, sock, timeout, ops, wire, exc >>

\* a local variable that has not been assigned
Unbound == "<unbound>"

\* no exit status: the process has not exited
Running == -1

(***************************************************************************)
(* architect_notify.py                                                     *)
(***************************************************************************)
\* the module docstring, printed as usage text
Doc == "Architect notification helper for Codex / Claude Code / Gemini."

\* print(text): text and a newline appended to the stream
PrintTo(stream, text) == stream \o text \o "\n"

\* the exceptions the model raises and their base classes
BaseOf(e) ==
    CASE e = "ValueError"             -> "Exception"
      [] e = "OSError"                -> "Exception"
      [] e = "FileNotFoundError"      -> "OSError"
      [] e = "ConnectionRefusedError" -> "OSError"
      [] e = "BrokenPipeError"        -> "OSError"
      [] e = "Exception"              -> "BaseException"
      [] OTHER                        -> "object"

RECURSIVE IsInstance(_, _)
IsInstance(e, cls) ==
    IF e = cls THEN TRUE
    ELSE IF e \in {"BaseException", "object"} THEN FALSE
    ELSE IsInstance(BaseOf(e), cls)

\* faulty variant: "except OSError"
CaughtOSError(e) == IsInstance(e, "OSError")

\* the except clause of notify_architect
Caught(e) == IsInstance(e, "Exception")

\* where notify_architect goes when e is raised inside its try block
AfterRaise(e) == IF Caught(e) THEN "returned" ELSE "raised"

\* not x, for an environment value
Falsy(x) == x = None \/ x = ""

\* faulty variant: "if session_id is None or sock_path is None"
DisabledIfUnset(sid, sp) == sid = None \/ sp = None

\* the guard of notify_architect: delivery is disabled
Disabled(sid, sp) == Falsy(sid) \/ Falsy(sp)

\* the exit status of the script once control leaves notify_architect
ExitStatus(pc) == IF pc = "raised" THEN 1 ELSE 0

\* __main__ up to the call of notify_architect
NotifyMain ==
    /\ npc = "main"
    /\ LET raw_arg == IF Len(nargv) >= 1 THEN nargv[1] ELSE nstdin
           st      == state_from_notification(raw_arg)
       IN  IF Strip(raw_arg) = ""
           THEN /\ nout' = PrintTo(nout, Doc)
                /\ nexit' = 1
                /\ npc' = "exited"
                /\ UNCHANGED << nerr, result, state >>
           ELSE IF st = None
           THEN /\ \E isatty \in BOOLEAN :
                     nerr' = IF isatty
                             THEN PrintTo(nerr, "Ignoring unmapped notification: " \o raw_arg)
                             ELSE nerr
                /\ result' = st
                /\ nexit' = 0
                /\ npc' = "exited"
                /\ UNCHANGED << nout, state >>
           ELSE /\ result' = st
                /\ state' = st
                /\ npc' = "notify_architect"
                /\ UNCHANGED << nout, nerr, nexit >>
    /\ UNCHANGED << inputVars, geminiVars, nargv, nstdin, deliverVars >>

\* notify_architect: read the environment, build the message
NotifyBegin ==
    /\ npc = "notify_architect"
    /\ \E sid \in SessionIds, sp \in SockPaths :
         /\ session_id' = sid
         /\ sock_path' = sp
         /\ IF Disabled(sid, sp)
            THEN /\ npc' = "returned"
                 /\ UNCHANGED << message, exc >>
            ELSE IF ~PyInt(sid).ok
            THEN /\ exc' = "ValueError"
                 /\ npc' = AfterRaise("ValueError")
                 /\ UNCHANGED message
            ELSE /\ message' = NotifyMessage(PyInt(sid).val, state)
                 /\ npc' = "socket"
                 /\ UNCHANGED exc
    /\ UNCHANGED << inputVars, geminiVars, nargv, nstdin, nout, nerr, nexit, result, state,
                    sock, timeout, ops, wire >>

\* socket.socket(AF_UNIX, SOCK_STREAM)
SockCreate ==
    /\ npc = "socket"
    /\ \E r \in {"ok", "OSError"} :
         IF r = "ok"
         THEN /\ sock' = "open"
              /\ timeout' = None
              /\ ops' = Append(ops, "socket")
              /\ npc' = "connect"
              /\ UNCHANGED exc
         ELSE /\ exc' = r
              /\ npc' = AfterRaise(r)
              /\ UNCHANGED << sock, timeout, ops >>
    /\ UNCHANGED << inputVars, geminiVars, nargv, nstdin, nout, nerr, nexit, result, state,
                    session_id, sock_path, message, wire >>

\* what becomes of a socket left unclosed when the function returns and its
\* last reference goes away: the interpreter finalizes it at once, or not
Unreferenced(s) == {s, "closed"}

\* sock.connect(sock_path); "blocks": the endpoint never completes the connection
SockConnect ==
    /\ npc = "connect"
    /\ \E r \in {"ok", "FileNotFoundError", "ConnectionRefusedError", "blocks"} :
         /\ ops' = Append(ops, "connect")
         /\ IF r = "ok"
            THEN /\ sock' = "connected"
                 /\ npc' = "sendall"
                 /\ UNCHANGED exc
            ELSE IF r = "blocks"
            THEN /\ timeout = None
                 /\ npc' = "connecting"
                 /\ UNCHANGED << sock, exc >>
            ELSE /\ exc' = r
                 /\ npc' = AfterRaise(r)
                 /\ sock' \in Unreferenced(sock)
    /\ UNCHANGED << inputVars, geminiVars, nargv, nstdin, nout, nerr, nexit, result, state,
                    session_id, sock_path, message, timeout, wire >>

\* faulty variant: a failed write is tried again once
SockSendallRetry ==
    /\ npc = "sendall"
    /\ \E r \in {"ok", "BrokenPipeError"} :
         IF r = "ok"
         THEN /\ ops' = Append(ops, "sendall")
              /\ wire' = Append(wire, message)
              /\ npc' = "close"
              /\ UNCHANGED << sock, exc >>
         ELSE /\ ops' = ops \o << "sendall", "sendall" >>
              /\ exc' = r
              /\ npc' = AfterRaise(r)
              /\ sock' \in Unreferenced(sock)
              /\ UNCHANGED wire
    /\ UNCHANGED << inputVars, geminiVars, nargv, nstdin, nout, nerr, nexit, result, state,
                    session_id, sock_path, message, timeout >>

\* sock.sendall(message.encode())
SockSendall ==
    /\ npc = "sendall"
    /\ \E r \in {"ok", "BrokenPipeError"} :
         /\ ops' = Append(ops, "sendall")
         /\ IF r = "ok"
            THEN /\ wire' = Append(wire, message)
                 /\ npc' = "close"
                 /\ UNCHANGED << sock, exc >>
            ELSE /\ exc' = r
                 /\ npc' = AfterRaise(r)
                 /\ sock' \in Unreferenced(sock)
                 /\ UNCHANGED wire
    /\ UNCHANGED << inputVars, geminiVars, nargv, nstdin, nout, nerr, nexit, result, state,
                    session_id, sock_path, message, timeout >>

\* sock.close() and the return of notify_architect
SockClose ==
    /\ npc = "close"
    /\ sock' = "closed"
    /\ ops' = Append(ops, "close")
    /\ npc' = "returned"
    /\ UNCHANGED << inputVars, geminiVars, nargv, nstdin, nout, nerr, nexit, result, state,
                    session_id, sock_path, message, timeout, wire, exc >>

\* the script ends after notify_architect; the system closes what is open
NotifyExit ==
    /\ npc \in {"returned", "raised"}
    /\ nexit' = ExitStatus(npc)
    /\ npc' = "exited"
    /\ sock' = IF sock = "none" THEN "none" ELSE "closed"
    /\ UNCHANGED << inputVars, geminiVars, nargv, nstdin, nout, nerr, result, state,
                    session_id, sock_path, message, timeout, ops, wire, exc >>

\* state_from_notification called on its own
Classify ==
    /\ prog = "classify"
    /\ result = Unbound
    /\ result' = state_from_notification(argv[1])
    /\ UNCHANGED << inputVars, geminiVars, npc, nargv, nstdin, nout, nerr, nexit,
                    state, deliverVars >>

(***************************************************************************)
(* architect_hook_gemini.py                                                *)
(***************************************************************************)
\* json.dumps({"decision": "allow"})
Ack == JsonDumps(PyDict(<< <<"decision", PyStrVal("allow")>> >>))

\* faulty variant: main returns the status of the subprocess
HookStatusPropagated(returncode) == returncode

\* the status main returns after the subprocess ran with the given returncode
HookStatus(returncode) == 0

\* main up to subprocess.run: consume stdin, then acknowledge at once (no
\* argument, or python3 cannot be launched) or start architect_notify.py
GeminiMain ==
    /\ gpc = "main"
    /\ LET hook_input == stdin
           validated  == IF hook_input # "" THEN JsonLoads(hook_input).ok ELSE TRUE
       IN  validated \in BOOLEAN
    /\ IF Len(argv) < 1
       THEN /\ gout' = PrintTo(gout, Ack)
            /\ gexit' = 0
            /\ gpc' = "exited"
            /\ UNCHANGED << npc, nargv, nstdin >>
       ELSE \E launch \in {"ok", "FileNotFoundError"} :
              IF launch = "ok"
              THEN /\ gpc' = "waiting"
                   /\ npc' = "main"
                   /\ nargv' = << argv[1] >>
                   /\ nstdin' = ""
                   /\ UNCHANGED << gout, gexit >>
              ELSE /\ gout' = PrintTo(gout, Ack)
                   /\ gexit' = 0
                   /\ gpc' = "exited"
                   /\ UNCHANGED << npc, nargv, nstdin >>
    /\ UNCHANGED << inputVars, nout, nerr, nexit, result, state, deliverVars >>

\* subprocess.run returns once architect_notify.py has exited; acknowledge
GeminiReap ==
    /\ gpc = "waiting"
    /\ npc = "exited"
    /\ gout' = PrintTo(gout, Ack)
    /\ gexit' = HookStatus(nexit)
    /\ gpc' = "exited"
    /\ UNCHANGED << inputVars, npc, nargv, nstdin, nout, nerr, nexit, result, state, deliverVars >>

(***************************************************************************)
(* Specification.                                                          *)
(***************************************************************************)
\* the state when the host starts one of the scripts, or a caller is about to
\* call state_from_notification, on one of the given inputs
InitOn(inputs) ==
    /\ \E inp \in inputs, viaArg \in BOOLEAN :
         \/ /\ prog = "notify"
            /\ given = inp.given
            /\ argv = IF viaArg THEN << inp.text >> ELSE <<>>
            /\ stdin = IF viaArg THEN "" ELSE inp.text
            /\ gpc = "idle"
            /\ npc = "main"
            /\ nargv = argv
            /\ nstdin = stdin
         \/ /\ prog = "classify"
            /\ viaArg
            /\ given = inp.given
            /\ argv = << inp.text >>
            /\ stdin = ""
            /\ gpc = "idle"
            /\ npc = "idle"
            /\ nargv = <<>>
            /\ nstdin = ""
         \/ /\ prog = "gemini"
            /\ inp \in HookInputs
            /\ given = inp.given
            /\ argv = IF viaArg THEN << inp.text >> ELSE <<>>
            /\ stdin \in HookStdin
            /\ gpc = "main"
            /\ npc = "idle"
            /\ nargv = <<>>
            /\ nstdin = ""
    /\ gout = ""
    /\ gexit = Running
    /\ nout = ""
    /\ nerr = ""
    /\ nexit = Running
    /\ result = Unbound
    /\ state = Unbound
    /\ session_id = Unbound
    /\ sock_path = Unbound
    /\ message = Unbound
    /\ sock = "none"
    /\ timeout = Unbound
    /\ ops = <<>>
    /\ wire = <<>>
    /\ exc = None

Init == InitOn(Inputs)

\* the inputs of the runs whose termination is examined
FewInputs == {i \in Inputs : i.text \in {"", "done", "not json", "{\"type\":\"task-started\"}"}}

InitFew == InitOn(FewInputs)

Next ==
    \/ NotifyMain
    \/ NotifyBegin
    \/ SockCreate
    \/ SockConnect
    \/ SockSendall
    \/ SockClose
    \/ NotifyExit
    \/ GeminiMain
    \/ GeminiReap
    \/ Classify

Spec == Init /\ [][Next]_vars

\* the steps from the call of notify_architect to the end of the scripts
Deliver ==
    \/ NotifyBegin
    \/ SockCreate
    \/ SockConnect
    \/ SockSendall
    \/ SockClose
    \/ NotifyExit
    \/ GeminiReap

\* once notify_architect is called, a step is taken whenever one is possible:
\* the scripts are sequential programs that run until they block or exit
FairSpec == InitFew /\ [][Next]_vars /\ WF_vars(Deliver)

TypeOK ==
    /\ prog \in {"notify", "gemini", "classify"}
    /\ result \in VALID_STATES \cup {None, Unbound}
    /\ npc \in {"idle", "main", "notify_architect", "socket", "connect", "connecting",
                "sendall", "close", "returned", "raised", "exited"}
    /\ gpc \in {"idle", "main", "waiting", "exited"}
    /\ sock \in {"none", "open", "connected", "closed"}
    /\ state \in VALID_STATES \cup {Unbound}
    /\ nexit \in {Running, 0, 1}
    /\ gexit \in {Running, 0, 1}

(***************************************************************************)
(* Properties.                                                             *)
(***************************************************************************)
\* the raw input of architect_notify.py: the argument, else standard input
RawArg == IF Len(nargv) >= 1 THEN nargv[1] ELSE nstdin

RECURSIVE CountChar(_, _)
CountChar(s, c) ==
    IF s = "" THEN 0 ELSE (IF Head(s) = c THEN 1 ELSE 0) + CountChar(Tail(s), c)

AckObject == [t |-> "dict", v |-> << <<"decision", [t |-> "str", v |-> "allow"]>> >>]

\* C1: whatever the hook's standard input, arguments and the outcome of the
\* notify subprocess, the Gemini hook exits with status 0 and its standard
\* output is the JSON object {"decision": "allow"}, printed exactly once (and
\* nothing is printed before it exits).
C1_HookAcknowledges ==
    /\ gpc # "exited" => gout = "" /\ gexit = Running
    /\ gpc = "exited" =>
         /\ gexit = 0
         /\ JsonLoads(gout).ok
         /\ JsonLoads(gout).val = AckObject
         /\ CountChar(gout, "\n") = 1

\* the hook got a non-JSON standard input and its subprocess exited with 1
C1_Witness ==
    /\ gpc = "exited"
    /\ stdin = "not json"
    /\ Len(argv) = 1
    /\ nexit = 1

\* C2: notify_architect never raises to its caller, whichever step fails, and
\* the script that called it exits with status 0.
C2_NeverRaises ==
    /\ npc # "raised"
    /\ exc # None => npc \in {"returned", "exited"}
    /\ (npc = "exited" /\ state # Unbound) => nexit = 0

\* the session id was not an integer, the call returned and the script exited
C2_Witness ==
    /\ exc = "ValueError"
    /\ session_id = "abc"
    /\ npc = "exited"
    /\ nexit = 0

\* C3: with ARCHITECT_SESSION_ID or ARCHITECT_NOTIFY_SOCK unset or empty,
\* notify_architect performs no socket operation and returns normally.
C3_DisabledIsNoOp ==
    (session_id \in {None, ""} \/ sock_path \in {None, ""}) =>
        /\ ops = <<>>
        /\ wire = <<>>
        /\ sock = "none"
        /\ exc = None
        /\ npc \in {"returned", "exited"}

\* the socket path is the empty string, the session id a good one
C3_Witness ==
    /\ session_id = "7"
    /\ sock_path = ""
    /\ state = "done"
    /\ npc = "returned"

\* C4: every message written to the socket is a JSON object
\* {session: <integer>, state: s} with s a canonical state, the one the raw
\* input classifies to; nothing is written when the input classifies to None.
C4_WireShape ==
    /\ \A n \in 1..Len(wire) :
         LET p == JsonLoads(wire[n])
         IN  /\ p.ok
             /\ p.val.t = "dict"
             /\ Len(p.val.v) = 2
             /\ p.val.v[1][1] = "session"
             /\ p.val.v[1][2].t = "int"
             /\ p.val.v[2][1] = "state"
             /\ p.val.v[2][2].t = "str"
             /\ p.val.v[2][2].v \in {"start", "awaiting_approval", "done"}
             /\ p.val.v[2][2].v = state_from_notification(RawArg)
    /\ wire # <<>> => state_from_notification(RawArg) # None

\* a message was written for a JSON payload given on standard input
C4_Witness ==
    /\ Len(wire) = 1
    /\ given.kind = "object"
    /\ given.type = "awaiting-user-input"
    /\ nargv = <<>>

IsPrefix(a, b) == Len(a) <= Len(b) /\ a = SubSeq(b, 1, Len(a))

\* the decimal text of the integer each session id of the model stands for
C5_IdText(sid) ==
    CASE sid = "7"     -> "7"
      [] sid = " 42\n" -> "42"
      [] sid = "-3"    -> "-3"
      [] sid = "1_0"   -> "10"
      [] sid = "007"   -> "7"
      [] OTHER         -> "not an integer"

\* C5: one call of notify_architect makes at most one connection attempt and
\* at most one write, in the order socket, connect, write, close; when the
\* connection and the write succeed, exactly one line
\* {"session": <id>, "state": "<state>"} with a trailing newline is written and
\* the socket is then closed.
C5_SingleWrite ==
    /\ IsPrefix(ops, << "socket", "connect", "sendall", "close" >>)
    /\ Len(wire) <= 1
    /\ Len(wire) = 1 => Len(ops) >= 3
    /\ (npc \in {"returned", "exited"} /\ Len(ops) >= 3 /\ exc = None) =>
         /\ ops = << "socket", "connect", "sendall", "close" >>
         /\ wire = << "{\"session\": " \o C5_IdText(session_id)
                      \o ", \"state\": \"" \o state \o "\"}\n" >>
         /\ sock = "closed"

\* the message was delivered for a session id written with an underscore
C5_Witness ==
    /\ npc = "returned"
    /\ session_id = "1_0"
    /\ Len(ops) = 4
    /\ Len(wire) = 1

\* C6: notify_architect never stalls its caller: whatever the endpoint does,
\* every call of it eventually returns, and the script that made the call and
\* the hook that waits for that script eventually exit.
C6_NeverStalls ==
    (npc = "notify_architect") ~> (npc = "exited" /\ gpc \in {"idle", "exited"})

\* s is empty or whitespace only
C7_Blank(s) == \A i \in 1..Len(s) : At(s, i) \in {" ", "\t", "\n", "\r", "\f"}

\* C7 as stated: architect_notify.py exits with status 1 and prints the usage
\* text exactly when the argument is absent and standard input is empty, and
\* exits with status 0 in every other invocation.
C7_UsageOnlyWithoutInput ==
    npc = "exited" =>
        IF nargv = <<>> /\ nstdin = ""
        THEN nexit = 1 /\ nout = Doc \o "\n"
        ELSE nexit = 0 /\ nout = ""

\* C7 amended: architect_notify.py exits with status 1 and prints the usage
\* text exactly when its raw input (the argument if there is one, else
\* standard input) is empty or whitespace only, and exits with status 0
\* otherwise.
C7_UsageOnBlankInput ==
    npc = "exited" =>
        IF C7_Blank(RawArg)
        THEN nexit = 1 /\ nout = Doc \o "\n"
        ELSE nexit = 0 /\ nout = ""

\* an argument is present, but blank: usage and status 1
C7_Witness ==
    /\ npc = "exited"
    /\ Len(nargv) = 1
    /\ nargv[1] # ""
    /\ nexit = 1

\* the decision table of the claim, in priority order: the value of a field
\* is tested for being one of, holding one of, holding all of or ending in
\* the words; the result is the value itself or the named state
C8_Table ==
    << [field |-> "state",  test |-> "is",     words |-> {"start", "awaiting_approval", "done"}, gives |-> "same"],
       [field |-> "status", test |-> "is",     words |-> {"start", "awaiting_approval", "done"}, gives |-> "same"],
       [field |-> "status", test |-> "is",     words |-> {"complete", "completed", "finished", "success"}, gives |-> "done"],
       [field |-> "status", test |-> "has",    words |-> {"approval", "permission"}, gives |-> "awaiting_approval"],
       [field |-> "type",   test |-> "is",     words |-> {"start", "awaiting_approval", "done"}, gives |-> "same"],
       [field |-> "type",   test |-> "has",    words |-> {"approval", "permission"}, gives |-> "awaiting_approval"],
       [field |-> "type",   test |-> "hasall", words |-> {"input", "await"}, gives |-> "awaiting_approval"],
       [field |-> "type",   test |-> "has",    words |-> {"complete"}, gives |-> "done"],
       [field |-> "type",   test |-> "ends",   words |-> {"-done"}, gives |-> "done"],
       [field |-> "type",   test |-> "has",    words |-> {"start", "begin"}, gives |-> "start"] >>

\* the value a rule looks at: state as it is, status and type lower-cased
C8_Value(g, field) == IF field = "state" THEN g[field] ELSE Lower(g[field])

C8_Matches(g, rule) ==
    /\ g[rule.field] # Absent
    /\ LET v == C8_Value(g, rule.field)
       IN  CASE rule.test = "is"     -> v \in rule.words
             [] rule.test = "has"    -> \E w \in rule.words : Contains(v, w)
             [] rule.test = "hasall" -> \A w \in rule.words : Contains(v, w)
             [] rule.test = "ends"   -> \E w \in rule.words : EndsWith(v, w)

C8_Expected(g) ==
    IF \E n \in 1..Len(C8_Table) : C8_Matches(g, C8_Table[n])
    THEN LET first == CHOOSE n \in 1..Len(C8_Table) :
                        /\ C8_Matches(g, C8_Table[n])
                        /\ \A m \in 1..(n - 1) : ~C8_Matches(g, C8_Table[m])
             rule  == C8_Table[first]
         IN  IF rule.gives = "same" THEN C8_Value(g, rule.field) ELSE rule.gives
    ELSE None

\* C8: on a JSON object whose state, status and type are strings or absent,
\* state_from_notification returns the result of the first matching rule of
\* the table, in the order state, status, type, and None when none matches.
C8_FieldRules ==
    (given.kind = "object" /\ result # Unbound) => result = C8_Expected(given)

\* state and status are present and match nothing; the type decides
C8_Witness ==
    /\ given.kind = "object"
    /\ given.state = "nope"
    /\ given.status = "unknown"
    /\ given.type = "x-done"
    /\ result = "done"

\* C9: state_from_notification returns None on a blank input, the name on a
\* canonical state name with or without surrounding whitespace, and None on
\* an input that is not JSON or is JSON but not an object.
C9_NonObjectInput ==
    result # Unbound =>
        /\ given.kind = "blank" => result = None
        /\ given.kind = "canonical" => result = given.name
        /\ given.kind \in {"notjson", "nonobject"} => result = None

\* a JSON array that holds a state name was classified
C9_Witness ==
    /\ result = None
    /\ given.kind = "nonobject"
    /\ prog = "classify"
    /\ Contains(argv[1], "[\"done\"]")

\* C10: when notify_architect returns, a socket it created has been closed.
C10_ClosedOnReturn == npc = "returned" => sock \in {"none", "closed"}

====
